---- MODULE Spec2Model ----
(***************************************************************************)
(* The rp66 "Visible Envelope" layer of layered-file-protocols             *)
(* (src/src/rp66.cpp): a protocol that owns a wrapped protocol fp and      *)
(* presents its bytes with every 4-byte Visible Envelope removed.          *)
(*                                                                         *)
(* The state is the layer's state (markers, current, current.remaining)    *)
(* and the wrapped protocol's position; every public operation is one      *)
(* action that runs the whole handler, loops included.                     *)
(***************************************************************************)
EXTENDS Integers, Sequences, FiniteSets, TLC

(* ---------------------------------------------------------------- bounds *)

\* the most Visible Records in a generated file
MaxRecords == 3
\* the most payload bytes in a generated file, all records together
MaxSize == 3
\* the most bytes a blocking wrapped protocol hands out in one call before
\* it blocks (the choices are 0..MaxReady)
MaxReady == 5
\* the most bytes missing at the end of a generated file
MaxCut == 1

(* ------------------------------------------------------------- constants *)

\* header::size
HeaderSize == 4
\* the format tag and major version `make` writes
FormatTag == 255
MajorVersion == 1
\* the value of the first payload byte of a generated file; the bytes that
\* follow count up from it, so they all differ from each other and from
\* every envelope byte
PayloadBase == 16

(* ------------------------------------------------------------ arithmetic *)

Min(a, b) == IF a <= b THEN a ELSE b
Max(a, b) == IF a >= b THEN a ELSE b

(***************************************************************************)
(* A requested length is a std::int64_t; the bound readinto checks it      *)
(* against is 2^32 - 1.  A length is kept as two 16-bit limbs,             *)
(* value = hi * 2^16 + lo, so that 2^32 - 1 and 2^32 are exact.            *)
(***************************************************************************)
Limb == 65536
Wide(k) == [hi |-> k \div Limb, lo |-> k % Limb]
WideLess(a, b) == a.hi < b.hi \/ (a.hi = b.hi /\ a.lo < b.lo)
\* std::numeric_limits< std::uint32_t >::max()
UINT32_MAX == [hi |-> Limb - 1, lo |-> Limb - 1]
\* std::min(len, r) for an r below 2^16 (current.remaining always is)
WideMin(len, r) == IF len.hi > 0 THEN r ELSE Min(len.lo, r)
\* n == len
WideEq(n, len) == len.hi = 0 /\ len.lo = n
\* len - n, for 0 <= n <= len, n below 2^16
WideSub(len, n) ==
    IF len.lo >= n THEN [hi |-> len.hi, lo |-> len.lo - n]
    ELSE [hi |-> len.hi - 1, lo |-> len.lo + Limb - n]

(* ------------------------------------------------------- the test files *)

RECURSIVE Sum(_)
Sum(sizes) == IF sizes = << >> THEN 0 ELSE Head(sizes) + Sum(Tail(sizes))

\* the reference bytes (`expected`): n bytes, all different
Expected(n) == [i \in 1..n |-> PayloadBase + i - 1]

\* one Visible Envelope as `make` writes it: the uint16 length n + 4 in
\* little-endian order, then format and major
Envelope(n) ==
    << (n + HeaderSize) % 256, (n + HeaderSize) \div 256, FormatTag, MajorVersion >>

\* `make`, for any partition `sizes` of the expected bytes into records:
\* each record is its envelope followed by its share of the bytes
RECURSIVE make(_, _)
make(sizes, src) ==
    IF sizes = << >> THEN << >>
    ELSE LET n == Head(sizes)
         IN  Envelope(n) \o [i \in 1..n |-> PayloadBase + src + i - 1]
             \o make(Tail(sizes), src + n)

\* every partition of at most MaxSize bytes into 1..MaxRecords records,
\* records without payload included
Partitions ==
    { p \in UNION { [1..k -> 0..MaxSize] : k \in 1..MaxRecords } : Sum(p) <= MaxSize }

(* ------------------------------------------------- the wrapped protocol *)

(***************************************************************************)
(* The wrapped protocol fp is a byte source over the bytes `bytes` with a  *)
(* position.  A layer value s carries the position in s.pos and, in        *)
(* s.ready, how many more bytes fp hands out in the running call before    *)
(* it blocks (a negative s.ready: fp never blocks).                        *)
(***************************************************************************)

\* how many bytes fp->readinto(dst, want, &n) copies
fp_count(bytes, s, want) ==
    IF s.ready < 0
    THEN Min(Max(want, 0), Max(Len(bytes) - s.pos, 0))
    ELSE Min(Min(Max(want, 0), Max(Len(bytes) - s.pos, 0)), s.ready)

\* fp->readinto(dst, want, &n) when it copies k bytes: the layer value
\* afterwards (s), the bytes copied (data), their count (n) and the status
\* returned (err)
fp_copy(bytes, s, want, k) ==
    [s |-> [s EXCEPT !.pos = s.pos + k,
                     !.ready = IF s.ready < 0 THEN s.ready ELSE s.ready - k],
     data |-> [i \in 1..k |-> bytes[s.pos + i]],
     n |-> k,
     err |-> IF k < want THEN "OKINCOMPLETE" ELSE "OK"]

\* fp->readinto(dst, want, &n)
fp_readinto(bytes, s, want) == fp_copy(bytes, s, want, fp_count(bytes, s, want))

\* fp->readinto(dst, want, &n) of a wrapped protocol that fails: it copies
\* nothing and returns a status that is neither LFP_OK nor
\* LFP_OKINCOMPLETE; dst is as it was (zeroes)
fp_fault(s, want) ==
    [s |-> s, data |-> [i \in 1..want |-> 0], n |-> 0, err |-> "IOERROR"]

\* fp->seek(n)
fp_seek(s, n) == [s EXCEPT !.pos = n]

\* fp->eof()
fp_eof(bytes, s) == s.pos >= Len(bytes)

(* ------------------------------------------------------- the rp66 layer *)

(***************************************************************************)
(* A layer value s is the state of one rp66 object during a call:          *)
(*   s.markers    the index, a sequence of headers                         *)
(*                [length, format, major, lastbyte]                        *)
(*   s.current    the cursor, as the 1-based position in markers it        *)
(*                points at (0: the value-initialised iterator)            *)
(*   s.remaining  current.remaining                                        *)
(*   s.pos        the position of fp                                       *)
(*   s.ready      see fp_count                                             *)
(*   s.err        "none", or the exception the call has thrown             *)
(* and, to tell what the layer has asked of fp,                            *)
(*   s.seen       the positions of fp at which read_header() has read      *)
(*   s.hreads     how many times read_header() has read from fp in the     *)
(*                running call                                             *)
(*   s.reread     one of those reads was at a position in seen             *)
(***************************************************************************)

\* a freshly appended header replaces the last one instead of following it
append_overwrite(s, head) ==
    [s EXCEPT !.markers = IF Len(s.markers) = 0 THEN << head >>
                          ELSE [s.markers EXCEPT ![Len(s.markers)] = head],
              !.current = Max(Len(s.markers), 1),
              !.remaining = 0]

\* rp66::append: push_back, then current = markers.begin() + n with
\* n = max(size - 1, 0), which is a cursor freshly made from an iterator,
\* so its remaining is 0
append(s, head) ==
    [s EXCEPT !.markers = Append(s.markers, head),
              !.current = Max(Len(s.markers) - 1, 0) + 1,
              !.remaining = 0]

\* the header the 4 bytes b decode to: length is the little-endian uint16
\* of b[1..2] (the bytes are swapped first on a big-endian platform, so the
\* value is the same on both)
decode(b) == [length |-> b[1] + 256 * b[2], format |-> b[3], major |-> b[4]]

\* the envelope is counted as payload
payload_with_envelope(length) == length

\* head.length - header::size: the payload bytes of a record
payload(length) == length - HeaderSize

\* the header h with its lastbyte, after the headers in markers
with_lastbyte(markers, h) ==
    [length |-> h.length, format |-> h.format, major |-> h.major,
     lastbyte |-> payload(h.length)
                  + (IF Len(markers) > 0 THEN markers[Len(markers)].lastbyte
                     ELSE 0)]

\* the cursor is moved to the new record, whose payload is not made
\* available: remaining is the 0 of a fresh cursor
enter_last_without_payload(u) ==
    [u EXCEPT !.current = Len(u.markers), !.remaining = 0]

\* this->current = std::prev(this->markers.end());
\* this->current.remaining = head.length - header::size
enter_last(u) ==
    [u EXCEPT !.current = Len(u.markers),
              !.remaining = payload(u.markers[Len(u.markers)].length)]

\* fp is not asked whether it is at its end
read_header_got_no_eof(bytes, f) ==
    IF f.err = "OK"
    THEN enter_last(append(f.s, with_lastbyte(f.s.markers, decode(f.data))))
    ELSE IF f.err = "OKINCOMPLETE"
    THEN [f.s EXCEPT !.err = "protocol_failed_recovery"]
    ELSE [f.s EXCEPT !.err = "not_implemented"]

\* the switch has no default: what is in b is taken for a header
read_header_got_no_default(bytes, f) ==
    IF f.err = "OKINCOMPLETE"
    THEN IF fp_eof(bytes, f.s)
         THEN [f.s EXCEPT !.err = "protocol_fatal"]
         ELSE [f.s EXCEPT !.err = "protocol_failed_recovery"]
    ELSE enter_last(append(f.s, with_lastbyte(f.s.markers, decode(f.data))))

\* rp66::read_header(), from the switch on: f is what fp->readinto gave
read_header_got(bytes, f) ==
    IF f.err = "OK"
    THEN enter_last(append(f.s, with_lastbyte(f.s.markers, decode(f.data))))
    ELSE IF f.err = "OKINCOMPLETE"
    THEN IF fp_eof(bytes, f.s)
         THEN [f.s EXCEPT !.err = "protocol_fatal"]
         ELSE [f.s EXCEPT !.err = "protocol_failed_recovery"]
    ELSE [f.s EXCEPT !.err = "not_implemented"]

\* rp66::read_header() is about to read from fp, at the position fp has
header_read(s) ==
    [s EXCEPT !.hreads = @ + 1,
              !.reread = @ \/ s.pos \in s.seen,
              !.seen = @ \cup {s.pos}]

\* rp66::read_header()
read_header(bytes, s) ==
    read_header_got(bytes, fp_readinto(bytes, header_read(s), HeaderSize))

\* the envelope of the record moved to is left out of the count
indexed_tell_short(current, lastbyte) == ((current - 1) * HeaderSize) + lastbyte

\* rec * header::size + cur->lastbyte, where rec is
\* std::distance(beg, std::next(this->current)): the physical offset of the
\* first payload byte of the record `current`, the one being moved to
indexed_tell(current, lastbyte) == (((current - 1) + 1) * HeaderSize) + lastbyte

\* the index is not consulted: the header is read from fp again
read_header_cur_uncached(bytes, s) == read_header(bytes, s)

\* rp66::read_header(cursor cur), called with cur = current
read_header_cur(bytes, s) ==
    IF s.current + 1 = Len(s.markers) + 1
    THEN read_header(bytes, s)
    ELSE [fp_seek(s, indexed_tell(s.current + 1, s.markers[s.current].lastbyte))
             EXCEPT !.current = s.current + 1,
                    !.remaining = payload(s.markers[s.current + 1].length)]

\* rp66::eof
eof(bytes, s) == fp_eof(bytes, s)

\* tell without the bytes still unread in the record
tell_end_of_record(s) == s.markers[s.current].lastbyte

\* rp66::tell
tell(s) == s.markers[s.current].lastbyte - s.remaining

\* the requested length is not reduced by what was read
outstanding_whole(len, n) == len

\* len -= n
outstanding(len, n) == WideSub(len, n)

\* the bytes read are not taken off remaining
consume_nothing(s, n) == s

\* this->current.remaining -= n
consume(s, n) == [s EXCEPT !.remaining = s.remaining - n]

\* a record that is read to its end ends the call
stops_at_boundary(s, err, n, len) ==
    err = "OKINCOMPLETE" \/ WideEq(n, len) \/ s.remaining = 0

\* after a physical read: return on LFP_OKINCOMPLETE and on n == len
stops(s, err, n, len) == err = "OKINCOMPLETE" \/ WideEq(n, len)

\* the end of the file is not looked for
at_eof_never(bytes, s) == FALSE

\* if (this->eof()) return bytes_read
at_eof(bytes, s) == eof(bytes, s)

\* the loop goes on after read_header(current) unless that threw
entered(t) == [s |-> t, done |-> t.err # "none"]

\* a record without payload ends the call
next_record_stops_on_empty(bytes, s) ==
    [s |-> read_header_cur(bytes, s),
     done |-> read_header_cur(bytes, s).err # "none"
              \/ read_header_cur(bytes, s).remaining = 0]

\* if (this->current.remaining == 0) { read_header(current); continue; }
next_record(bytes, s) == entered(read_header_cur(bytes, s))

\* one turn of the loop that moved to the next record: x is next_record
step_header(r, len, x) == [r |-> [r EXCEPT !.s = x.s], len |-> len, done |-> x.done]

\* one turn of the loop that read from fp: f is what fp->readinto gave
step_read(r, len, f) ==
    [r |-> [s |-> consume(f.s, f.n),
            bytes_read |-> r.bytes_read + f.n,
            dst |-> r.dst \o f.data],
     len |-> IF stops(consume(f.s, f.n), f.err, f.n, len) THEN len
             ELSE outstanding(len, f.n),
     done |-> stops(consume(f.s, f.n), f.err, f.n, len)]

\* one turn of the loop of rp66::readinto(void* dst, std::int64_t len).
\* r.s is the layer value, r.bytes_read the count so far, r.dst the bytes
\* written so far; done says the loop is left, len is what is still asked
\* for
readinto_step(bytes, r, len) ==
    IF at_eof(bytes, r.s) THEN [r |-> r, len |-> len, done |-> TRUE]
    ELSE IF r.s.remaining = 0
    THEN step_header(r, len, next_record(bytes, r.s))
    ELSE step_read(r, len, fp_readinto(bytes, r.s, WideMin(len, r.s.remaining)))

\* the while (true) loop of rp66::readinto(void* dst, std::int64_t len)
RECURSIVE readinto_loop(_, _, _)
RECURSIVE readinto_turn(_, _)
readinto_turn(bytes, x) ==
    IF x.done THEN x.r ELSE readinto_loop(bytes, x.r, x.len)

readinto_loop(bytes, r, len) == readinto_turn(bytes, readinto_step(bytes, r, len))

\* what rp66::readinto(void*, std::int64_t, std::int64_t*) returns after
\* the loop has left r
readinto_result(r, len) ==
    IF r.s.err # "none"
    THEN [s |-> r.s, status |-> "none", nread |-> 0 - 1, dst |-> r.dst]
    ELSE [s |-> r.s,
          status |-> IF WideLess(Wide(r.bytes_read), len)
                     THEN "OKINCOMPLETE" ELSE "OK",
          nread |-> r.bytes_read,
          dst |-> r.dst]

\* rp66::readinto(void* dst, std::int64_t len, std::int64_t* bytes_read).
\* The result is the layer value with the outcome of the call:
\*   status  LFP_OK or LFP_OKINCOMPLETE ("none" when the call threw)
\*   nread   *bytes_read (-1: never assigned, the call threw)
\*   dst     the bytes written to dst, in order
readinto(bytes, s, len) ==
    IF WideLess(UINT32_MAX, len)
    THEN [s |-> [s EXCEPT !.err = "invalid_args"],
          status |-> "none", nread |-> 0 - 1, dst |-> << >>]
    ELSE readinto_result(
             readinto_loop(bytes, [s |-> s, bytes_read |-> 0, dst |-> << >>], len),
             len)

\* rp66::seek_with_index: the while loop that finds the record
RECURSIVE seek_with_index_scan(_, _, _)
seek_with_index_scan(s, records, n) ==
    IF s.markers[s.current].lastbyte < n
    THEN seek_with_index_scan([s EXCEPT !.current = s.current + 1], records + 1, n)
    ELSE [s |-> s, records |-> records]

\* the headers of the records before the one found are not counted
seek_with_index_one_header(w, n) ==
    [fp_seek(w.s, HeaderSize + n) EXCEPT
        !.remaining = w.s.markers[w.s.current].lastbyte - n]

\* rp66::seek_with_index, after the loop has left w
seek_with_index_at(w, n) ==
    [fp_seek(w.s, (w.records * HeaderSize) + n) EXCEPT
        !.remaining = w.s.markers[w.s.current].lastbyte - n]

\* rp66::seek_with_index
seek_with_index(s, n) ==
    seek_with_index_at(
        seek_with_index_scan([s EXCEPT !.current = 1, !.remaining = 0], 1, n), n)

\* the while (true) loop of rp66::seek: follow the headers past the index
RECURSIVE seek_follow(_, _, _, _)
RECURSIVE seek_follow_read(_, _, _, _)
\* a header read that fails ends the loop on the last record of the index
\* and the seek is clamped to the end of that record
seek_follow_read_clamps(bytes, t, real_offset, n) ==
    IF t.err # "none" \/ n <= t.markers[t.current].lastbyte
    THEN [s |-> [t EXCEPT !.err = "none"],
          real_offset |-> real_offset + t.markers[t.current].length]
    ELSE IF t.markers[t.current].length = 0
    THEN [s |-> [t EXCEPT !.err = "diverges"], real_offset |-> real_offset]
    ELSE seek_follow(bytes, t, real_offset + t.markers[t.current].length, n)

seek_follow_read(bytes, t, real_offset, n) ==
    IF t.err # "none" THEN [s |-> t, real_offset |-> real_offset]
    ELSE IF n <= t.markers[t.current].lastbyte
    THEN [s |-> t, real_offset |-> real_offset + t.markers[t.current].length]
    \* real_offset += 0: the next turn seeks to the same offset, reads the
    \* same envelope and lowers lastbyte once more, so the break is never
    \* taken and the loop does not end; the call is cut here as "diverges"
    ELSE IF t.markers[t.current].length = 0
    THEN [s |-> [t EXCEPT !.err = "diverges"], real_offset |-> real_offset]
    ELSE seek_follow(bytes, t, real_offset + t.markers[t.current].length, n)

seek_follow(bytes, s, real_offset, n) ==
    seek_follow_read(bytes, read_header(bytes, fp_seek(s, real_offset)),
                     real_offset, n)

\* fp is left at the end of the record found
seek_target_end_of_record(real_offset, rem) == real_offset

\* real_offset -= remaining: from the end of the record found back to the
\* byte asked for
seek_target(real_offset, rem) == real_offset - rem

\* rp66::seek, after the loop has left w
seek_followed(w, n) ==
    IF w.s.err # "none" THEN w.s
    ELSE [fp_seek(w.s, seek_target(w.real_offset,
                                   w.s.markers[w.s.current].lastbyte - n))
             EXCEPT !.remaining = w.s.markers[w.s.current].lastbyte - n]

\* rp66::seek, from this->current = std::prev(this->markers.end()) on
seek_from_last(bytes, s, n) ==
    IF n <= s.markers[s.current].lastbyte
    THEN seek_with_index(s, n)
    ELSE seek_followed(
             seek_follow(bytes, s,
                         (Len(s.markers) * HeaderSize) + s.markers[s.current].lastbyte,
                         n),
             n)

\* rp66::seek, after the index is known not to be empty
seek_indexed(bytes, s, n) ==
    IF s.err # "none" THEN s
    ELSE seek_from_last(bytes,
                        [s EXCEPT !.current = Len(s.markers), !.remaining = 0], n)

\* the offset is checked after the cursor has been put on the last record
seek_checks_late(bytes, s, n) ==
    IF n < 0
    THEN [s EXCEPT !.err = "invalid_args",
                   !.current = Len(s.markers), !.remaining = 0]
    ELSE seek_indexed(bytes,
                      IF Len(s.markers) = 0 THEN read_header(bytes, s) ELSE s, n)

\* rp66::seek
seek(bytes, s, n) ==
    IF n < 0 THEN [s EXCEPT !.err = "invalid_args"]
    ELSE seek_indexed(bytes,
                      IF Len(s.markers) = 0 THEN read_header(bytes, s) ELSE s, n)

\* a rp66 object whose constructor has not read yet, over a fresh fp
unread(ready) ==
    [markers |-> << >>, current |-> 0, remaining |-> 0,
     pos |-> 0, ready |-> ready, err |-> "none",
     seen |-> {}, hreads |-> 0, reread |-> FALSE]

\* rp66::seek, before the first read_header() of its loop: the cursor is
\* on the last record of the index and fp at the end of that record
past_index(s) ==
    fp_seek([s EXCEPT !.current = Len(s.markers), !.remaining = 0],
            (Len(s.markers) * HeaderSize) + s.markers[Len(s.markers)].lastbyte)

\* rp66::rp66: the layer value after the constructor has run on a fresh fp
rp66(bytes, ready) == read_header(bytes, unread(ready))

\* assert(head.format == (char)0xFF); assert(head.major == 1);
asserts_hold(head) == head.format = FormatTag /\ head.major = MajorVersion

\* the wrapped protocol is left open
close_leaves_open(n) == n

\* rp66::close: this->fp.close() closes the wrapped protocol, which has
\* been closed n times before
close(n) == n + 1

\* the member fp, a unique_lfp, is destroyed when the constructor throws:
\* it closes the protocol it owns, which has been closed n times before
unique_lfp_destroyed(n) == n + 1

\* try { return new lfp::rp66(f); } catch (...) { return nullptr; }
\* s is the layer value the constructor has left; ndebug says the build
\* compiles the asserts out.  An assert that fails stops the process.
constructed(s, ndebug) ==
    IF s.err # "none"
    THEN [phase |-> "null", s |-> s, closes |-> unique_lfp_destroyed(0)]
    ELSE IF ~ndebug /\ ~asserts_hold(s.markers[1])
    THEN [phase |-> "aborted", s |-> s, closes |-> 0]
    ELSE [phase |-> "open", s |-> s, closes |-> 0]

\* lfp_rp66_open(f): fh is "null" for a null f, bytes are the bytes of f.
\* The result is the phase the handle is in afterwards, the layer value,
\* and how many times f has been closed
lfp_rp66_open(fh, bytes, ndebug) ==
    IF fh = "null"
    THEN [phase |-> "null", s |-> unread(0 - 1), closes |-> 0]
    ELSE constructed(rp66(bytes, 0 - 1), ndebug)

(* ------------------------------------------------------------ the system *)

VARIABLES
    sizes,      \* the partition `make` was called with
    cut,        \* how many bytes are missing at the end of the file
    mem,        \* the bytes of the wrapped memfile
    blocking,   \* whether the wrapped protocol may block
    f,          \* what lfp_rp66_open is given: "null" or a "handle"
    markers,    \* rp66::markers
    current,    \* rp66::current, as a position in markers
    remaining,  \* rp66::current.remaining
    pos,        \* the position of rp66::fp
    seen,       \* the positions of fp at which read_header() has read
    phase,      \* where the handle is in its life: "unopened", "open",
                \* "null" (lfp_rp66_open returned nullptr), "aborted" (an
                \* assert stopped the process), "hung" (a call that does
                \* not end) or "closed"
    closes,     \* how many times the wrapped protocol has been closed
    last,       \* the last call on the layer and what it returned
    hist        \* what the calls so far have been

vars == << sizes, cut, mem, blocking, f, markers, current, remaining, pos, seen,
          phase, closes, last, hist >>

\* a wrapped protocol that never blocks
NeverBlocks == -1

\* the reference bytes of the file, and how many they are
expected == Expected(Sum(sizes))
size == Sum(sizes)

\* every record of the file is whole
WellFormed == cut = 0

\* the layer's state between calls
Snapshot == [markers |-> markers, current |-> current,
             remaining |-> remaining, pos |-> pos]

\* the layer value a call starts from
Layer(ready) == [markers |-> markers, current |-> current,
                 remaining |-> remaining, pos |-> pos,
                 ready |-> ready, err |-> "none",
                 seen |-> seen, hreads |-> 0, reread |-> FALSE]

\* how many bytes fp may hand out in one call
Readies == IF blocking THEN 0..MaxReady \cup {NeverBlocks} ELSE {NeverBlocks}

\* the lengths readinto is called with: 0 .. size + 1, 2^32 - 1 and 2^32
Lens == { Wide(k) : k \in 0..(size + 1) }
        \cup { UINT32_MAX, [hi |-> Limb, lo |-> 0] }

\* the offsets seek is called with
Offsets == (0 - 1)..(size + 1)

(***************************************************************************)
(* last: the last call and its outcome.                                    *)
(*   op, n, len          the call and its argument                         *)
(*   err                 "none", or the exception thrown                   *)
(*   status, nread, dst  what readinto returned (see readinto)             *)
(*   value               what tell or eof returned                         *)
(*   hreads, reread      the header reads of the call (see the layer       *)
(*                       value)                                            *)
(*   tell0, index0       tell() and markers.size() before the call         *)
(*   fresh               no readinto or seek had been called before        *)
(*   failed0             a call before this one had thrown a protocol      *)
(*                       error                                             *)
(*   prevseek            the offset of the call before, when that was a    *)
(*                       seek that returned; -1 otherwise                  *)
(*   pre                 for a seek to the offset prevseek: the layer's    *)
(*                       state before the call (snap) and whether the      *)
(*                       seek before it appended to the index              *)
(*                       (discovered); << >> for any other call            *)
(* hist: what the calls so far have been.                                  *)
(*   fresh      no readinto or seek so far                                 *)
(*   onlyreads  seek has not been called so far                            *)
(*   acc        while onlyreads: the bytes the readinto calls so far have  *)
(*              written, in order                                          *)
(*   failed     some call has thrown a protocol error                      *)
(***************************************************************************)
PrevSeek == IF last.op = "seek" /\ last.err = "none" THEN last.n ELSE 0 - 1

Call(op, n, len, s, status, nread, dst, value) ==
    [op |-> op, n |-> n, len |-> len, err |-> s.err,
     status |-> status, nread |-> nread, dst |-> dst, value |-> value,
     hreads |-> s.hreads, reread |-> s.reread,
     tell0 |-> tell(Layer(NeverBlocks)), index0 |-> Len(markers),
     fresh |-> hist.fresh, failed0 |-> hist.failed, prevseek |-> PrevSeek,
     pre |-> IF op = "seek" /\ PrevSeek = n
             THEN [snap |-> Snapshot, discovered |-> last.index0 < Len(markers)]
             ELSE << >>]

ProtocolError(err) == err \notin {"none", "invalid_args"}

\* the files the layer is opened on: every generated file, whole or with
\* its last bytes missing, on which the constructor succeeds.  The blocking
\* protocol is run on the whole files.
OpenCall(s) ==
    [op |-> "open", n |-> 0, len |-> Wide(0),
     err |-> s.err, status |-> "none",
     nread |-> 0, dst |-> << >>, value |-> 0,
     hreads |-> s.hreads, reread |-> s.reread,
     tell0 |-> 0, index0 |-> 0,
     fresh |-> TRUE, failed0 |-> FALSE,
     prevseek |-> 0 - 1, pre |-> << >>]

NoCalls == [fresh |-> TRUE, onlyreads |-> TRUE, acc |-> << >>, failed |-> FALSE]

Opened(p, c, blk, file, s) ==
    /\ sizes = p
    /\ cut = c
    /\ mem = file
    /\ blocking = blk
    /\ f = "handle"
    /\ markers = s.markers
    /\ current = s.current
    /\ remaining = s.remaining
    /\ pos = s.pos
    /\ seen = s.seen
    /\ phase = "open"
    /\ closes = 0
    /\ last = OpenCall(s)
    /\ hist = NoCalls

\* the bytes of the file `make` writes for p, without its last c bytes
Truncated(file, c) == SubSeq(file, 1, Len(file) - c)

InitWith(blk) ==
    \E p \in Partitions, c \in (IF blk THEN {0} ELSE 0..MaxCut) :
        \E file \in { Truncated(make(p, 0), c) } :
            /\ Len(file) >= HeaderSize
            /\ Opened(p, c, blk, file, rp66(file, NeverBlocks))

Init == InitWith(FALSE)
InitBlocking == InitWith(TRUE)

Keep(s) ==
    /\ markers' = s.markers
    /\ current' = s.current
    /\ remaining' = s.remaining
    /\ pos' = s.pos
    /\ seen' = s.seen
    /\ phase' = IF s.err = "diverges" THEN "hung" ELSE phase
    /\ UNCHANGED << sizes, cut, mem, blocking, f, closes >>

\* Calls are made on an open handle.  Over a memfile the caller may go on
\* after any error.  Over a blocking protocol the caller drops the handle
\* once a call has thrown a protocol error (the handle is unusable from
\* then on).
Usable == phase = "open" /\ (~blocking \/ ~hist.failed)

\* the state after lfp_readinto(f, dst, len, &nread) has given r
ReadIntoDone(len, r) ==
    /\ Keep(r.s)
    /\ last' = Call("readinto", 0, len, r.s, r.status, r.nread, r.dst, 0)
    /\ hist' = [fresh |-> FALSE,
                onlyreads |-> hist.onlyreads,
                acc |-> IF hist.onlyreads THEN hist.acc \o r.dst ELSE << >>,
                failed |-> hist.failed \/ ProtocolError(r.s.err)]

\* assert(this->current.remaining >= 0), on entry to the inner readinto
readinto_asserts_hold(s) == s.remaining >= 0

\* whether the build compiles the asserts out: it makes no difference
\* while they hold
Builds == IF readinto_asserts_hold(Layer(NeverBlocks)) THEN {TRUE} ELSE BOOLEAN

\* the state after an assert has stopped the process in the call op
Aborted(op, len) ==
    /\ phase' = "aborted"
    /\ last' = [Call(op, 0, len, Layer(NeverBlocks), "none", 0 - 1, << >>, 0)
                    EXCEPT !.err = "abort"]
    /\ UNCHANGED << sizes, cut, mem, blocking, f, markers, current, remaining,
                    pos, seen, closes, hist >>

\* lfp_readinto(f, dst, len, &nread)
ReadInto ==
    \E len \in Lens, ready \in Readies, ndebug \in Builds :
        /\ Usable
        /\ IF ndebug \/ WideLess(UINT32_MAX, len)
              \/ readinto_asserts_hold(Layer(ready))
           THEN ReadIntoDone(len, readinto(mem, Layer(ready), len))
           ELSE Aborted("readinto", len)

\* the state after lfp_seek(f, n) has left the layer as s
SeekDone(n, s) ==
    /\ Keep(s)
    /\ last' = Call("seek", n, Wide(0), s, "none", 0, << >>, 0)
    /\ hist' = [fresh |-> FALSE, onlyreads |-> FALSE, acc |-> << >>,
                failed |-> hist.failed \/ ProtocolError(s.err)]

\* lfp_seek(f, n)
Seek ==
    \E n \in Offsets, ready \in Readies :
        /\ Usable
        /\ SeekDone(n, seek(mem, Layer(ready), n))

\* lfp_tell(f, &tell)
Tell ==
    /\ Usable
    /\ last' = Call("tell", 0, Wide(0), Layer(NeverBlocks), "none",
                    0, << >>, tell(Layer(NeverBlocks)))
    /\ UNCHANGED << sizes, cut, mem, blocking, f, markers, current, remaining,
                    pos, seen, phase, closes, hist >>

\* lfp_eof(f)
Eof ==
    /\ Usable
    /\ last' = Call("eof", 0, Wide(0), Layer(NeverBlocks), "none",
                    0, << >>, IF eof(mem, Layer(NeverBlocks)) THEN 1 ELSE 0)
    /\ UNCHANGED << sizes, cut, mem, blocking, f, markers, current, remaining,
                    pos, seen, phase, closes, hist >>

Next == ReadInto \/ Seek \/ Tell \/ Eof

\* the layer over a memfile, which never blocks
Spec == Init /\ [][Next]_vars

\* the layer over a wrapped protocol that may block in any call
SpecBlocking == InitBlocking /\ [][Next]_vars

(***************************************************************************)
(* The life of a handle, from lfp_rp66_open to lfp_close.  What            *)
(* lfp_rp66_open is given: a null handle, or a memfile over a generated    *)
(* file whose first envelope has the format and major `make` writes or     *)
(* others, or over the first bytes of a lone envelope, or over a file      *)
(* whose last envelope has a length less than 4.                           *)
(***************************************************************************)

\* the (format, major) pairs of the first envelope
Tags == { << FormatTag, MajorVersion >>,
          << FormatTag - 1, MajorVersion >>,
          << FormatTag, MajorVersion + 1 >> }

\* the file with format and major of its first envelope set to tag
Retagged(file, tag) == [file EXCEPT ![3] = tag[1], ![4] = tag[2]]

\* a lone envelope whose length field k is less than its own size
ShortEnvelope(k) == << k, 0, FormatTag, MajorVersion >>

\* the files, each with the partition and the cut it comes from
LifeFiles ==
    { [sizes |-> p, cut |-> 0, file |-> Retagged(make(p, 0), tag)] :
          p \in Partitions, tag \in Tags }
    \cup { [sizes |-> << 0 >>, cut |-> c, file |-> Truncated(make(<< 0 >>, 0), c)] :
              c \in 1..HeaderSize }
    \cup { [sizes |-> << 0 >>, cut |-> 0, file |-> ShortEnvelope(k)] :
              k \in 0..(HeaderSize - 1) }
    \cup { [sizes |-> << 0, 0 >>, cut |-> 0,
            file |-> make(<< 0 >>, 0) \o ShortEnvelope(k)] :
              k \in 0..(HeaderSize - 1) }

InitLife ==
    \E fh \in {"null", "handle"}, x \in LifeFiles :
        /\ fh = "null" => x.cut = HeaderSize
        /\ sizes = x.sizes
        /\ cut = x.cut
        /\ mem = x.file
        /\ blocking = FALSE
        /\ f = fh
        /\ markers = << >>
        /\ current = 0
        /\ remaining = 0
        /\ pos = 0
        /\ seen = {}
        /\ phase = "unopened"
        /\ closes = 0
        /\ last = [OpenCall(unread(NeverBlocks)) EXCEPT !.op = "none"]
        /\ hist = NoCalls

\* the state after lfp_rp66_open(f) has given o
OpenDone(o) ==
    /\ phase' = o.phase
    /\ closes' = closes + o.closes
    /\ markers' = o.s.markers
    /\ current' = o.s.current
    /\ remaining' = o.s.remaining
    /\ pos' = o.s.pos
    /\ seen' = o.s.seen
    /\ last' = OpenCall(o.s)
    /\ hist' = NoCalls
    /\ UNCHANGED << sizes, cut, mem, blocking, f >>

\* lfp_rp66_open(f), in a build with or without asserts
Open ==
    \E ndebug \in BOOLEAN :
        /\ phase = "unopened"
        /\ OpenDone(lfp_rp66_open(f, mem, ndebug))

\* lfp_close(f)
Close ==
    /\ phase = "open"
    /\ phase' = "closed"
    /\ closes' = close(closes)
    /\ last' = Call("close", 0, Wide(0), Layer(NeverBlocks), "none", 0, << >>, 0)
    /\ UNCHANGED << sizes, cut, mem, blocking, f, markers, current, remaining,
                    pos, seen, hist >>

(***************************************************************************)
(* Header discovery on its own: read_header() as the loop of seek calls   *)
(* it, past the last record of the index, over a wrapped protocol that    *)
(* may hand out any number of the bytes asked for, or fail.               *)
(***************************************************************************)

\* the state after read_header() was given g by fp and has left s
DiscoverDone(g, s) ==
    /\ Keep(s)
    /\ last' = Call("read_header", 0, Wide(0), s, g.err, g.n, << >>,
                    IF fp_eof(mem, g.s) THEN 1 ELSE 0)
    /\ hist' = [fresh |-> FALSE, onlyreads |-> FALSE, acc |-> << >>,
                failed |-> hist.failed \/ ProtocolError(s.err)]

\* this->fp->seek(real_offset); this->read_header();
Discover ==
    \E ready \in 0..MaxReady \cup {NeverBlocks}, fault \in BOOLEAN :
        \E g \in { IF fault
                   THEN fp_fault(header_read(past_index(Layer(ready))), HeaderSize)
                   ELSE fp_readinto(mem, header_read(past_index(Layer(ready))),
                                    HeaderSize) } :
            /\ phase = "open"
            /\ DiscoverDone(g, read_header_got(mem, g))

NextHeader == Discover

SpecHeader == Init /\ [][NextHeader]_vars

NextLife == Open \/ ReadInto \/ Seek \/ Tell \/ Eof \/ Close

SpecLife == InitLife /\ [][NextLife]_vars

(* -------------------------------------------------------------- claims *)

\* the call that has just returned
Returned == last.err = "none"
ReadReturned == last.op = "readinto" /\ Returned
SeekReturned == last.op = "seek" /\ Returned

\* the layer as it is now, for a call on a protocol that does not block
Now == Layer(NeverBlocks)

\* bytes a .. b-1 of the reference bytes
Slice(a, b) == SubSeq(expected, a + 1, b)

\* the requested length of the last readinto is exactly k / is at most k
LenIs(k) == last.len = Wide(k)
LenAtMost(k) == last.len.hi = 0 /\ last.len.lo <= k

(* C1: on a whole file with at least one payload byte, split into any     *)
(* number of records, the first call on a freshly opened layer, a         *)
(* readinto of the full payload length, returns LFP_OK, reports the       *)
(* payload length and writes the reference bytes, no envelope byte among  *)
(* them.                                                                  *)
C1_SingleRead ==
    (WellFormed /\ size >= 1 /\ last.op = "readinto" /\ last.fresh /\ LenIs(size))
        => /\ Returned
           /\ last.status = "OK"
           /\ last.nread = size
           /\ last.dst = expected

C1_Witness ==
    /\ WellFormed /\ last.op = "readinto" /\ last.fresh /\ LenIs(size)
    /\ Len(sizes) = 3 /\ sizes[1] >= 1 /\ sizes[2] >= 1 /\ sizes[3] >= 1
    /\ last.dst = expected

(* C2: on a whole file of logical length size, seek(n) with 0 <= n < size *)
(* returns, whatever was called before, and tell() is n afterwards: both  *)
(* the layer's own tell and the value the next lfp_tell reports.          *)
C2_SeekTell ==
    /\ (WellFormed /\ last.op = "seek" /\ 0 <= last.n /\ last.n < size)
           => (Returned /\ tell(Now) = last.n)
    /\ (WellFormed /\ last.op = "tell" /\ 0 <= last.prevseek /\ last.prevseek < size)
           => last.value = last.prevseek

C2_Witness ==
    /\ WellFormed /\ last.op = "tell" /\ last.prevseek >= 1
    /\ last.prevseek < size /\ last.value = last.prevseek
    /\ Len(markers) = 3 /\ current = 2

\* what seek(n) and then readinto(len) give on an unframed memfile that
\* holds the reference bytes
OnReference(n, len) ==
    fp_readinto(expected, fp_seek([pos |-> 0, ready |-> NeverBlocks], n), len)

(* C3: on a whole file, seek(n) with 0 <= n < size followed by a readinto *)
(* of size - n bytes returns LFP_OK and exactly size - n bytes, bytes     *)
(* n .. size-1 of the reference bytes: the count, status and bytes that   *)
(* the same seek and read give on an unframed memfile holding the         *)
(* reference bytes.  Whatever was called before the seek.                 *)
C3_SeekThenRead ==
    (WellFormed /\ last.op = "readinto" /\ 0 <= last.prevseek
        /\ last.prevseek < size /\ LenIs(size - last.prevseek))
        => /\ Returned
           /\ last.status = "OK"
           /\ last.nread = size - last.prevseek
           /\ last.dst = Slice(last.prevseek, size)
           /\ last.dst = OnReference(last.prevseek, size - last.prevseek).data
           /\ last.status = OnReference(last.prevseek, size - last.prevseek).err
           /\ last.nread = OnReference(last.prevseek, size - last.prevseek).n

\* a backward seek into the first record of a fully indexed three-record
\* file, then a read that walks the index to the end
C3_Witness ==
    /\ WellFormed /\ ReadReturned /\ last.prevseek = 0 /\ LenIs(size)
    /\ last.index0 = 3 /\ sizes[1] >= 1 /\ sizes[3] >= 1
    /\ last.dst = expected

(* C4: on a whole file read from the start by readinto calls only, every  *)
(* call with a length within the 32-bit bound returns, and the bytes      *)
(* written so far are the first bytes of what one readinto of the whole   *)
(* length writes on a fresh layer; a call whose range lies inside the     *)
(* payload returns LFP_OK with exactly the requested count, and a call    *)
(* returns LFP_OKINCOMPLETE only when it asks for bytes past the end of   *)
(* the payload.                                                           *)
C4_Chunking ==
    (WellFormed /\ hist.onlyreads)
        => LET whole == readinto(mem, rp66(mem, NeverBlocks), Wide(size)).dst
           IN  /\ hist.acc = SubSeq(whole, 1, Len(hist.acc))
               /\ Len(hist.acc) = tell(Now)
               /\ (last.op = "readinto" /\ ~WideLess(UINT32_MAX, last.len))
                      => Returned
               /\ (last.op = "readinto" /\ LenAtMost(size - last.tell0))
                      => (last.status = "OK" /\ last.nread = last.len.lo)
               /\ (last.op = "readinto" /\ last.status = "OKINCOMPLETE")
                      => (~LenAtMost(size - last.tell0) /\ hist.acc = whole)

\* a later call of a run of reads, which crosses into another record and
\* runs past the end
C4_Witness ==
    /\ WellFormed /\ hist.onlyreads /\ last.op = "readinto"
    /\ last.tell0 >= 1 /\ last.nread >= 2 /\ last.status = "OKINCOMPLETE"
    /\ Len(sizes) = 3 /\ sizes[3] = 1
    /\ hist.acc = expected

\* the requested length of the last readinto is more than k and within
\* the 32-bit bound
LenExceeds(k) ==
    /\ ~WideLess(UINT32_MAX, last.len)
    /\ (last.len.hi > 0 \/ last.len.lo > k)

(* C5: on a whole file over a protocol that never blocks, on a layer none *)
(* of whose calls has thrown a protocol error, a readinto that asks for   *)
(* more bytes than are left returns without an error, with                *)
(* LFP_OKINCOMPLETE and all the bytes that are left, and eof() is true    *)
(* right after it.                                                        *)
C5_ReadPastEnd ==
    (WellFormed /\ ~blocking /\ ~last.failed0 /\ last.op = "readinto"
        /\ LenExceeds(size - last.tell0))
        => /\ Returned
           /\ last.status = "OKINCOMPLETE"
           /\ last.nread = size - last.tell0
           /\ last.dst = Slice(last.tell0, size)
           /\ eof(mem, Now)

\* the scenario of the test: two records with payload, a read from the
\* start that asks for more than both hold
C5_Witness ==
    /\ WellFormed /\ ReadReturned /\ last.tell0 = 0 /\ LenIs(size + 1)
    /\ Len(sizes) = 2 /\ sizes[1] >= 1 /\ sizes[2] >= 1
    /\ last.status = "OKINCOMPLETE" /\ last.dst = expected /\ eof(mem, Now)

\* the partition without its records that have no payload
Strip(p) == SelectSeq(p, LAMBDA n : n >= 1)

\* what readinto(len) returns at logical offset n of the file that holds
\* the same bytes in the same records but has no record without payload
Unpadded(n, len) ==
    LET file == make(Strip(sizes), 0)
    IN  readinto(file, seek(file, rp66(file, NeverBlocks), n), len)

(* C6: records without payload are transparent to readinto.  On a whole   *)
(* file made only of such records a readinto of any positive length       *)
(* returns 0 bytes with LFP_OKINCOMPLETE and eof() is true afterwards.    *)
(* On a whole file with payload, on a layer none of whose calls has       *)
(* thrown a protocol error, a readinto returns the count, status and      *)
(* bytes that the same readinto returns at the same logical offset of the *)
(* file with every record without payload removed.                        *)
C6_EmptyRecords ==
    /\ (WellFormed /\ size = 0 /\ last.op = "readinto" /\ LenExceeds(0))
           => /\ Returned
              /\ last.nread = 0
              /\ last.dst = << >>
              /\ last.status = "OKINCOMPLETE"
              /\ eof(mem, Now)
    /\ (WellFormed /\ size >= 1 /\ ~last.failed0 /\ last.op = "readinto"
           /\ ~WideLess(UINT32_MAX, last.len))
           => LET ref == Unpadded(last.tell0, last.len)
              IN  /\ Returned
                  /\ last.dst = ref.dst
                  /\ last.nread = ref.nread
                  /\ last.status = ref.status

\* a read that starts in the first record and ends in the third, across a
\* second record that has no payload
C6_Witness ==
    /\ WellFormed /\ ReadReturned /\ Len(sizes) = 3
    /\ sizes[1] >= 1 /\ sizes[2] = 0 /\ sizes[3] >= 1
    /\ last.tell0 < sizes[1] /\ last.tell0 + last.nread > sizes[1]

\* what a readinto of one byte would return now
NextByte == readinto(mem, Now, Wide(1))

(* C7: tell() is 0 right after open; a readinto that reports k bytes      *)
(* advances tell() by exactly k, on every file, also when it crosses      *)
(* records, ends on a record boundary or is cut short by the wrapped      *)
(* protocol; and on a whole file, whenever the next readinto delivers a   *)
(* byte, it is the reference byte at offset tell(), which it always does  *)
(* while tell() < size on a layer none of whose calls has thrown a        *)
(* protocol error.                                                        *)
C7_Tell ==
    /\ last.op = "open" => tell(Now) = 0
    /\ (last.op = "tell" /\ last.fresh) => last.value = 0
    /\ ReadReturned => tell(Now) = last.tell0 + last.nread
    /\ (WellFormed /\ NextByte.s.err = "none" /\ NextByte.nread = 1)
           => (tell(Now) < size /\ NextByte.dst = << expected[tell(Now) + 1] >>)
    /\ (WellFormed /\ ~hist.failed /\ tell(Now) < size)
           => (NextByte.s.err = "none" /\ NextByte.nread = 1)

\* a read that crosses into the second record and is cut short there by
\* the wrapped protocol, whose last byte is missing
C7_Witness ==
    /\ cut = 1 /\ ReadReturned /\ last.tell0 = 0 /\ last.nread = 2
    /\ last.status = "OKINCOMPLETE" /\ last.index0 = 1 /\ Len(markers) = 2
    /\ remaining = 1 /\ tell(Now) = 2

(* C8: every readinto that returns reports a count k with 0 <= k <= len,  *)
(* has written exactly k bytes, and returns LFP_OK exactly when k = len   *)
(* and LFP_OKINCOMPLETE exactly when k < len.                             *)
C8_ReadCount ==
    ReadReturned
        => /\ 0 <= last.nread
           /\ ~WideLess(last.len, Wide(last.nread))
           /\ Len(last.dst) = last.nread
           /\ last.status \in {"OK", "OKINCOMPLETE"}
           /\ last.status = "OK" <=> Wide(last.nread) = last.len
           /\ last.status = "OKINCOMPLETE" <=> WideLess(Wide(last.nread), last.len)

\* a read across a record boundary that the blocking protocol cuts short
\* before the end of the file
C8_Witness ==
    /\ blocking /\ ReadReturned /\ last.status = "OKINCOMPLETE"
    /\ last.nread >= 1 /\ last.index0 < Len(markers) /\ ~eof(mem, Now)
    /\ remaining >= 1

(* C9: a seek(n) that follows a seek(n) that returned returns too and     *)
(* leaves the layer as the first left it: the same index, cursor record,  *)
(* remaining count and position of the wrapped protocol, so the same      *)
(* tell() and the same results of the reads that follow.                  *)
C9_Reseek ==
    (last.op = "seek" /\ last.prevseek = last.n /\ last.n >= 0)
        => /\ Returned
           /\ Snapshot = last.pre.snap
           /\ tell(Now) = last.n

\* the first seek appended to the index, the second was served from it,
\* and the offset is inside a record
C9_Witness ==
    /\ SeekReturned /\ last.prevseek = last.n /\ last.n >= 1
    /\ last.pre.discovered /\ last.index0 = Len(markers)
    /\ current = 2 /\ remaining >= 1

(* C10: in every step the index before the call is a prefix of the index  *)
(* after it: entries are appended and never removed, changed or           *)
(* reordered, also by a call that throws.                                 *)
C10_AppendOnly ==
    [][/\ Len(markers) <= Len(markers')
       /\ SubSeq(markers', 1, Len(markers)) = markers]_vars

\* a seek past the end of the file, which throws after it has appended
C10_Witness ==
    /\ last.op = "seek" /\ last.err = "protocol_fatal"
    /\ last.index0 >= 1 /\ Len(markers) >= last.index0 + 2

\* the last call was one that may move the layer
Moved == last.op \in {"readinto", "seek"}

(* C11: a header is read from fp at most once.  A call on a layer none of  *)
(* whose earlier calls has thrown a protocol error reads no header at a    *)
(* position of fp at which a header was read before; a seek to an offset   *)
(* that is at most the lastbyte of the last record of the index reads no   *)
(* header; and the header reads of a readinto or a seek are as many as the *)
(* records the call has added to the index (and one more when the call     *)
(* threw a protocol error), so that moving into a record of the index      *)
(* reads nothing.                                                          *)
C11_HeaderOnce ==
    /\ (Moved /\ ~last.failed0) => ~last.reread
    /\ (SeekReturned /\ last.n <= markers[last.index0].lastbyte)
           => last.hreads = 0
    /\ Moved => last.hreads = (Len(markers) - last.index0)
                              + (IF ProtocolError(last.err) THEN 1 ELSE 0)

\* a readinto that starts in the first record and crosses into the second,
\* which is in the index already
C11_Witness ==
    /\ ReadReturned /\ last.hreads = 0 /\ last.index0 >= 2
    /\ last.tell0 < markers[1].lastbyte
    /\ last.tell0 + last.nread > markers[1].lastbyte

\* a readinto issued now produces a byte
Produces == NextByte.s.err = "none" /\ NextByte.nread >= 1

(* C12: on a whole file, records without payload included, eof() is true   *)
(* in every state in which no readinto issued from the current position    *)
(* produces a byte, and false while one does.                              *)
C12_EofExhausted == WellFormed => (eof(mem, Now) <=> ~Produces)

\* lfp_rp66_open has been called
OpenCalled == last.op = "open"

\* the first envelope of the file is there in full
FirstHeaderWhole == Len(mem) >= HeaderSize

\* the first envelope is there in full and has another format or major
\* than rp66 has
FirstHeaderMalformed ==
    FirstHeaderWhole /\ (mem[3] # FormatTag \/ mem[4] # MajorVersion)

(* C13: lfp_rp66_open returns null, and no fault escapes it, when it is    *)
(* given a null handle, when the first header cannot be read in full, and  *)
(* when the first header has a format other than 0xFF or a major other     *)
(* than 1.                                                                 *)
C13_OpenNull ==
    (OpenCalled /\ (f = "null" \/ ~FirstHeaderWhole \/ FirstHeaderMalformed))
        => phase = "null"

\* the call made in this step has an argument the layer must refuse
BadArgument ==
    \/ (last'.op = "seek" /\ last'.n < 0)
    \/ (last'.op = "readinto" /\ WideLess(UINT32_MAX, last'.len))

(* C14: a seek to a negative offset and a readinto of more than 2^32 - 1   *)
(* bytes are refused with invalid_args, and the call leaves the index,     *)
(* the cursor, remaining, tell() and the position of fp as they were.      *)
C14_InvalidArgs ==
    [][BadArgument
           => /\ last'.err = "invalid_args"
              /\ markers' = markers
              /\ current' = current
              /\ remaining' = remaining
              /\ pos' = pos
              /\ tell(Now)' = tell(Now)]_vars

\* a negative seek refused in the middle of a record that is not the last
\* of the index
C14_Witness ==
    /\ last.op = "seek" /\ last.n < 0 /\ last.err = "invalid_args"
    /\ remaining >= 1 /\ current < Len(markers)

\* the file ends inside the payload of its last record, or right before it
InPayload == cut >= 1 /\ cut <= sizes[Len(sizes)]

\* the file ends inside the envelope of its last record
InHeader ==
    /\ cut > sizes[Len(sizes)]
    /\ cut < sizes[Len(sizes)] + HeaderSize

\* the payload bytes that are in the file
Available == IF InPayload THEN size - cut ELSE size - sizes[Len(sizes)]

\* the payload bytes that are in the file from where the last call started
Left == Max(Available - last.tell0, 0)

\* the last call is a readinto with a length within the 32-bit bound, on a
\* layer none of whose earlier calls has thrown a protocol error
SoundRead ==
    /\ last.op = "readinto"
    /\ ~WideLess(UINT32_MAX, last.len)
    /\ ~last.failed0

\* the last call returned with status st and the k reference bytes from
\* where it started
Gave(st, k) ==
    /\ Returned
    /\ last.status = st
    /\ last.nread = k
    /\ last.dst = Slice(last.tell0, last.tell0 + k)

(* C15, as claimed: on a file that ends inside a payload or inside an      *)
(* envelope no readinto reports an error, and a readinto that asks for     *)
(* more than the payload bytes that are there returns those with           *)
(* LFP_OKINCOMPLETE.                                                       *)
C15_TruncatedNoError ==
    (SoundRead /\ (InPayload \/ InHeader))
        => /\ Returned
           /\ LenExceeds(Left) => Gave("OKINCOMPLETE", Left)

(* C15, amended: on a file that ends inside a payload no readinto reports  *)
(* an error: it returns the payload bytes that are there, with             *)
(* LFP_OKINCOMPLETE when more were asked for.  On a file that ends inside  *)
(* an envelope a readinto that stays within the payload before that        *)
(* envelope returns LFP_OK, and one that has to go on to that envelope     *)
(* throws protocol_fatal.                                                  *)
C15_Truncated ==
    /\ (SoundRead /\ InPayload)
           => /\ LenExceeds(Left) => Gave("OKINCOMPLETE", Left)
              /\ LenAtMost(Left) => Gave("OK", last.len.lo)
    /\ (SoundRead /\ InHeader)
           => IF LenExceeds(Left) \/ last.tell0 = Available
              THEN last.err = "protocol_fatal"
              ELSE Gave("OK", last.len.lo)

\* a read across two records that the end of the file cuts short
C15_Witness ==
    /\ SoundRead /\ InPayload /\ Len(sizes) >= 2
    /\ last.index0 = 1 /\ last.nread >= 2 /\ last.status = "OKINCOMPLETE"

\* the last call is a readinto that threw a protocol error after it had
\* written bytes to dst
ThrewAfterBytes ==
    /\ last.op = "readinto"
    /\ ProtocolError(last.err)
    /\ Len(last.dst) >= 1

(* C16: when a readinto throws a protocol error after it has produced      *)
(* k > 0 bytes, the count k is reported to the caller and tell() has       *)
(* advanced by k.                                                          *)
C16_PartialKept ==
    ThrewAfterBytes
        => /\ last.nread = Len(last.dst)
           /\ tell(Now) = last.tell0 + Len(last.dst)

(* C17: the wrapped protocol given to lfp_rp66_open is closed exactly      *)
(* once.  It is not closed before the layer is, whatever readinto, seek,   *)
(* tell and eof calls are made; closing the layer closes it once; and an   *)
(* open that returns null for a handle that is not null has closed it      *)
(* once, so that it is neither left open nor closed twice.                 *)
C17_ClosedOnce ==
    /\ closes <= 1
    /\ phase \in {"unopened", "open"} => closes = 0
    /\ phase = "closed" => closes = 1
    /\ phase = "null" => closes = (IF f = "null" THEN 0 ELSE 1)

\* a layer closed after calls on it, one of which threw
C17_Witness == phase = "closed" /\ closes = 1 /\ hist.failed

\* read_header() has just run: last.status and last.nread are what fp
\* returned to it, last.value is 1 when fp reports eof after that
Discovered == last.op = "read_header"

(* C18: read_header() that gets fewer than 4 bytes from fp throws          *)
(* protocol_fatal when fp then reports eof and protocol_failed_recovery    *)
(* when it does not; a status of fp other than LFP_OK and                  *)
(* LFP_OKINCOMPLETE makes it throw not_implemented; and in none of these   *)
(* cases does the index get an entry.                                      *)
C18_HeaderErrors ==
    Discovered
        => /\ (last.status = "OKINCOMPLETE" /\ last.nread < HeaderSize
                  /\ last.value = 1) => last.err = "protocol_fatal"
           /\ (last.status = "OKINCOMPLETE" /\ last.nread < HeaderSize
                  /\ last.value = 0) => last.err = "protocol_failed_recovery"
           /\ last.status \notin {"OK", "OKINCOMPLETE"}
                  => last.err = "not_implemented"
           /\ last.status # "OK" => Len(markers) = last.index0

\* fp handed out half an envelope and is not at its end
C18_Witness ==
    /\ Discovered /\ last.status = "OKINCOMPLETE" /\ last.nread = 2
    /\ last.value = 0 /\ last.err = "protocol_failed_recovery"
    /\ Len(markers) = 2

(* C19: in every state of an open layer, remaining is at least 0 and at   *)
(* most the length of the record the cursor is on less 4.                  *)
C19_RemainingBounds ==
    phase = "open"
        => /\ 0 <= remaining
           /\ remaining <= markers[current].length - HeaderSize

\* lastbyte of the entry before entry i of the index (0 before the first)
LastbyteBefore(i) == IF i = 1 THEN 0 ELSE markers[i - 1].lastbyte

(* C20: in every state of an open layer every entry of the index has       *)
(* lastbyte = (lastbyte of the entry before, 0 for the first) + length - 4,*)
(* and lastbyte never decreases along the index: it grows from one entry   *)
(* to the next, except that it stays the same over a record without        *)
(* payload.                                                                *)
C20_Lastbyte ==
    phase = "open"
        => \A i \in 1..Len(markers) :
               /\ markers[i].lastbyte
                      = LastbyteBefore(i) + markers[i].length - HeaderSize
               /\ i > 1 => LastbyteBefore(i) <= markers[i].lastbyte
               /\ (i > 1 /\ markers[i].length # HeaderSize)
                      => LastbyteBefore(i) < markers[i].lastbyte


\* the call has ended: it has returned or it has raised an error
Ended == last.err # "diverges"

(* C21: every seek and every readinto on a finite file ends.  The call     *)
(* returns or raises an error, and it reads at most one header for each    *)
(* byte of the file and one more, so that it appends at most that many     *)
(* entries to the index, whatever the length fields of the headers are.    *)
C21_Terminates ==
    Moved => /\ Ended
             /\ last.hreads <= Len(mem) + 1
             /\ Len(markers) <= last.index0 + Len(mem) + 1

\* a forward seek has met an envelope whose length field is 0
C21_ZeroLength ==
    /\ last.op = "seek"
    /\ \E i \in 1..Len(markers) : i > last.index0 /\ markers[i].length = 0


\* the first record of the index whose lastbyte is at least n
FirstReaching(n) ==
    CHOOSE i \in 1..Len(markers) :
        /\ markers[i].lastbyte >= n
        /\ \A j \in 1..(i - 1) : markers[j].lastbyte < n

\* seek(n) on a layer that has just been opened on the same file, whose
\* index holds the first record only
SeekFresh(n) == seek(mem, rp66(mem, NeverBlocks), n)

(* C22: a seek(n) that returns leaves the cursor on the first record whose *)
(* lastbyte is at least n, remaining = that lastbyte - n and fp at         *)
(* 4 * (the number of that record) + n, whether the index held the record  *)
(* already or the seek has read its header; the cursor, remaining and the  *)
(* position of fp are those that the same seek gives on a layer that has   *)
(* just been opened.                                                       *)
C22_SeekState ==
    SeekReturned =>
        /\ \E i \in 1..Len(markers) : markers[i].lastbyte >= last.n
        /\ current = FirstReaching(last.n)
        /\ remaining = markers[current].lastbyte - last.n
        /\ pos = (HeaderSize * current) + last.n
        /\ SeekFresh(last.n).err = "none"
        /\ current = SeekFresh(last.n).current
        /\ remaining = SeekFresh(last.n).remaining
        /\ pos = SeekFresh(last.n).pos

\* a seek answered from the index alone, to a record that a layer just
\* opened would have had to discover
C22_Witness ==
    /\ SeekReturned
    /\ last.hreads = 0
    /\ current > 1
    /\ remaining > 0
    /\ Len(SeekFresh(last.n).markers) > 1

\* a seek that has discovered the record it ends on
C22_WitnessForward ==
    /\ SeekReturned
    /\ last.hreads > 1
    /\ current = Len(markers)


\* the physical offset of the byte at tell(): one envelope for each record
\* up to the cursor's, and the payload bytes before it
PhysicalTell == (HeaderSize * current) + tell(Now)

(* C23: after open and after every readinto or seek that returns, fp is    *)
(* at 4 * (the number of the cursor's record) + tell(): at the next unread *)
(* payload byte of the record, or at the header of the next record when    *)
(* remaining = 0.  This holds when the cursor has moved by reading a       *)
(* header from fp and when it has moved through the index.  The calls are  *)
(* those on a handle none of whose earlier calls has thrown a protocol     *)
(* error: such a handle is not to be used again.                           *)
C23_Position ==
    (/\ phase = "open"
     /\ OpenCalled \/ ReadReturned \/ SeekReturned
     /\ ~last.failed0)
        => pos = PhysicalTell

\* a readinto that began inside an earlier record and moved the cursor
\* through the index, without reading a header from fp
C23_Witness ==
    /\ ReadReturned
    /\ ~last.failed0
    /\ last.hreads = 0
    /\ last.nread > 0
    /\ current > 1
    /\ last.tell0 < markers[current - 1].lastbyte
    /\ remaining > 0

\* a readinto that moved the cursor by reading a header from fp
C23_WitnessRead ==
    /\ ReadReturned
    /\ ~last.failed0
    /\ last.hreads > 0
    /\ last.nread > 0
    /\ remaining > 0


\* a seek to an offset beyond the last byte of the file
SeekBeyond == last.op = "seek" /\ last.n > size

(* C24: on a whole file of logical length L a seek(n) with n > L does not  *)
(* return and does not leave the layer at L as if it had: it appends every *)
(* record the index did not hold yet, reading each header once, and throws *)
(* protocol_fatal when the read of the header after the last record meets  *)
(* the end of the file.                                                    *)
C24_SeekBeyond ==
    (WellFormed /\ SeekBeyond) =>
        /\ last.err = "protocol_fatal"
        /\ Len(markers) = Len(sizes)
        /\ \A i \in 1..Len(markers) :
               markers[i].lastbyte = LastbyteBefore(i) + sizes[i]
        /\ last.hreads = (Len(sizes) - last.index0) + 1
        /\ pos = Len(mem)

\* a seek beyond the end that had two records or more to discover
C24_Witness ==
    /\ WellFormed
    /\ SeekBeyond
    /\ ~last.failed0
    /\ Len(markers) >= last.index0 + 2
    /\ last.err = "protocol_fatal"

====
